---- MODULE Spec2Model ----
(***************************************************************************)
(* The POST /generate-qr-pdf handler of qr_pdf_app.js as a state machine.  *)
(* Every request is one run of the async handler; the Node event loop runs *)
(* one synchronous segment of one request at a time (variable cur) and     *)
(* requests interleave only where the handler awaits.                      *)
(***************************************************************************)
EXTENDS Integers, Sequences, FiniteSets, TLC

\* ------------------------------------------------------------------ bounds
NumRequests == 2
MaxTime == 1
GeomSlack == 2

\* ------------------------------------------------------- program constants
QR_SIZE == 384
QR_TOP == 481
\* Byte capacity of a version-40 symbol at errorCorrectionLevel "H".
QR_CAPACITY_H == 1273

Requests == 1..NumRequests

\* --------------------------------------------------------------- JS values
\* A JSON value of the request body: its type tag, its text and, for a
\* string, its length in bytes.
JsUndefined == [t |-> "undefined", v |-> "", n |-> 0]
JsString(s, len) == [t |-> "string", v |-> s, n |-> len]

\* !x is false exactly for a truthy x.
Truthy(x) ==
    ~ \/ x.t = "undefined"
      \/ x.t = "null"
      \/ (x.t = "string" /\ x.n = 0)
      \/ (x.t = "number" /\ x.v = "0")
      \/ (x.t = "boolean" /\ x.v = "false")

\* a !== b
StrictNotEqual(a, b) == a # b

\* Math.round(p / q) for q > 0: halves round towards +Infinity.
MathRound(p, q) == (2 * p + q) \div (2 * q)

\* ------------------------------------------------------------------ inputs
GoodUrl == JsString("https://example.com/x", 21)
LongUrl == JsString("https://example.com/long", QR_CAPACITY_H + 1)
EmptyString == JsString("", 0)
ConfiguredSecret == JsString("s3cret", 6)

Urls == {JsUndefined, EmptyString, GoodUrl, LongUrl}
Secrets ==
    {JsUndefined, EmptyString, ConfiguredSecret, JsString("S3CRET", 6),
     JsString("s3cret ", 7)}
Bodies == [url : Urls, authSecret : Secrets]

\* process.env.AUTH_SECRET: set, or not configured.
SecretConfigs == {ConfiguredSecret, JsUndefined}

\* The asset at TEMPLATE_PATH: absent, or a raster of some size and format.
NoTemplate == [exists |-> FALSE, width |-> 0, height |-> 0, format |-> "none"]
Raster(w, h, f) == [exists |-> TRUE, width |-> w, height |-> h, format |-> f]
Templates ==
    {NoTemplate, Raster(1240, 1754, "png"), Raster(1240, 600, "png"),
     Raster(300, 1754, "png"), Raster(1240, 1754, "webp")}

VARIABLES AUTH_SECRET, template, now, cur, pc, body, requestId, stages,
          qrCodeBuffer, templateMetadata, qrOverlay, processedImage, doc,
          error, res

vars == <<AUTH_SECRET, template, now, cur, pc, body, requestId, stages,
          qrCodeBuffer, templateMetadata, qrOverlay, processedImage, doc,
          error, res>>

env == <<AUTH_SECRET, template>>
locals == <<qrCodeBuffer, templateMetadata, qrOverlay, processedImage, doc>>

\* ------------------------------------------------------------ empty values
NoBuffer == [kind |-> "none"]
NoBody == [kind |-> "none"]
NoError == [message |-> ""]
NoOverlay == [set |-> FALSE, top |-> 0, left |-> 0]
NoMetadata == [set |-> FALSE, width |-> 0, height |-> 0]
NoDoc == [created |-> FALSE, size |-> <<0, 0>>, creationDate |-> 0,
          content |-> <<>>, ended |-> FALSE]
FreshResponse ==
    [statusCode |-> 200, contentType |-> "", contentDisposition |-> "",
     piped |-> FALSE, ended |-> FALSE, body |-> NoBody, writeAfterEnd |-> FALSE]

InitWith(ts) ==
    /\ AUTH_SECRET \in SecretConfigs
    /\ template \in ts
    /\ now = 0
    /\ cur = 0
    /\ pc = [r \in Requests |-> "idle"]
    /\ body = [r \in Requests |-> [url |-> JsUndefined, authSecret |-> JsUndefined]]
    /\ requestId = [r \in Requests |-> -1]
    /\ stages = [r \in Requests |-> <<>>]
    /\ qrCodeBuffer = [r \in Requests |-> NoBuffer]
    /\ templateMetadata = [r \in Requests |-> NoMetadata]
    /\ qrOverlay = [r \in Requests |-> NoOverlay]
    /\ processedImage = [r \in Requests |-> NoBuffer]
    /\ doc = [r \in Requests |-> NoDoc]
    /\ error = [r \in Requests |-> NoError]
    /\ res = [r \in Requests |-> FreshResponse]

Init == InitWith(Templates)

\* ----------------------------------------------------------------- helpers
Goto(r, label) == pc' = [pc EXCEPT ![r] = label]
Call(r, name) == stages' = [stages EXCEPT ![r] = Append(@, name)]

\* A rejected await or a throwing call: control passes to the catch block.
Throw(r, msg) ==
    /\ error' = [error EXCEPT ![r] = [message |-> msg]]
    /\ Goto(r, "catch")
    /\ cur' = r

\* res.status(code).json(obj): the JSON Content-Type is set only when no
\* Content-Type header is set yet; other headers already set are kept.
SendJson(rs, code, obj) ==
    [rs EXCEPT !.statusCode = code,
               !.contentType = IF rs.contentType = "" THEN "application/json"
                               ELSE rs.contentType,
               !.body = obj,
               !.ended = TRUE]

\* The clock behind Date.now() and new Date(); it is followed while a request
\* can still read it.
Tick ==
    /\ now < MaxTime
    /\ \E r \in Requests : pc[r] \notin {"done", "failed"}
    /\ now' = now + 1
    /\ UNCHANGED <<env, cur, pc, body, requestId, stages, locals, error, res>>

\* Lines 106-116: the handler is entered with the parsed body.
ReceiveBody(r, b) ==
    /\ cur = 0
    /\ pc[r] = "idle"
    /\ IF r = 1 THEN TRUE ELSE pc[r - 1] # "idle"
    /\ body' = [body EXCEPT ![r] = b]
    /\ requestId' = [requestId EXCEPT ![r] = now]
    /\ cur' = r
    /\ Goto(r, "validating")
    /\ UNCHANGED <<env, now, stages, locals, error, res>>

Receive(r, bs) == \E b \in bs : ReceiveBody(r, b)

\* As if url were one variable shared by all requests, holding the url of
\* the request that arrived last.
UrlOfLatest(r) ==
    LET arrived == {q \in Requests : pc[q] # "idle"}
    IN  body[CHOOSE q \in arrived : \A o \in arrived : o <= q].url

\* Line 116: const { url, authSecret } = req.body.
UrlOf(r) == body[r].url

AuthSecretOf(r) == body[r].authSecret

\* Lines 123-137: both parameters must be truthy.
Provided(x) == IF Truthy(x) THEN "provided" ELSE "missing"

\* As if only the url were validated.
MissingParametersUrlOnly(url, authSecret) == ~Truthy(url)

MissingParameters(url, authSecret) == ~Truthy(url) \/ ~Truthy(authSecret)

MissingBody(url, authSecret) ==
    [kind |-> "json", error |-> "Missing required parameters",
     details |-> [url |-> Provided(url), authSecret |-> Provided(authSecret)]]

Validate(r) ==
    /\ cur = r
    /\ pc[r] = "validating"
    /\ IF MissingParameters(UrlOf(r), AuthSecretOf(r))
       THEN /\ res' = [res EXCEPT ![r] =
                   SendJson(@, 400, MissingBody(UrlOf(r), AuthSecretOf(r)))]
            /\ Goto(r, "failed")
            /\ cur' = 0
       ELSE /\ Goto(r, "authenticating")
            /\ UNCHANGED <<res, cur>>
    /\ UNCHANGED <<env, now, body, requestId, stages, locals, error>>

\* Lines 139-153: strict comparison with process.env.AUTH_SECRET, then the
\* call of generateQRCode, whose promise the handler awaits.
\* As if the comparison were skipped when no secret is configured.
SecretMismatchWhenConfigured(secret, configured) ==
    Truthy(configured) /\ StrictNotEqual(secret, configured)

SecretMismatch(secret, configured) == StrictNotEqual(secret, configured)

UnauthorizedBody == [kind |-> "json", error |-> "Invalid authentication secret"]

Authenticate(r) ==
    /\ cur = r
    /\ pc[r] = "authenticating"
    /\ IF SecretMismatch(AuthSecretOf(r), AUTH_SECRET)
       THEN /\ res' = [res EXCEPT ![r] = SendJson(@, 401, UnauthorizedBody)]
            /\ Goto(r, "failed")
            /\ UNCHANGED stages
       ELSE /\ Call(r, "generateQRCode")
            /\ Goto(r, "encoding")
            /\ UNCHANGED res
    /\ cur' = 0
    /\ UNCHANGED <<env, now, body, requestId, locals, error>>

\* Lines 83-103: QRCode.toBuffer encodes a string that fits a symbol of
\* level "H"; any failure is rethrown as "Failed to generate QR code".
Encodable(url) == url.t = "string" /\ url.n > 0 /\ url.n <= QR_CAPACITY_H

QRBuffer(url) == [kind |-> "qr", data |-> url.v, width |-> QR_SIZE, height |-> QR_SIZE]

\* Lines 153-158: the await of generateQRCode settles; on success the
\* template read starts.
EncodeDone(r) ==
    /\ cur = 0
    /\ pc[r] = "encoding"
    /\ IF Encodable(UrlOf(r))
       THEN /\ qrCodeBuffer' = [qrCodeBuffer EXCEPT ![r] = QRBuffer(UrlOf(r))]
            /\ Call(r, "toBuffer")
            /\ Goto(r, "loading")
            /\ UNCHANGED <<cur, error>>
       ELSE /\ Throw(r, "Failed to generate QR code")
            /\ UNCHANGED <<qrCodeBuffer, stages>>
    /\ UNCHANGED <<env, now, body, requestId, templateMetadata, qrOverlay,
                   processedImage, doc, res>>

\* Lines 158-162: sharp(TEMPLATE_PATH).toBuffer() settles; on success the
\* metadata read starts.
LoadDone(r) ==
    /\ cur = 0
    /\ pc[r] = "loading"
    /\ IF template.exists
       THEN /\ Call(r, "metadata")
            /\ Goto(r, "metadata")
            /\ UNCHANGED <<cur, error>>
       ELSE /\ Throw(r, "Input file is missing")
            /\ UNCHANGED stages
    /\ UNCHANGED <<env, now, body, requestId, locals, res>>

\* As if the widths were added instead of subtracted.
OverlayLeftSum(templateWidth) == MathRound(templateWidth + QR_SIZE, 2)

\* Line 175: Math.round((templateWidth - QR_SIZE) / 2).
OverlayLeft(templateWidth) == MathRound(templateWidth - QR_SIZE, 2)

\* Line 174.
OverlayTop == QR_TOP

\* Lines 162-186: the dimensions are read, the overlay position computed and
\* the composite started.
MetadataDone(r) ==
    /\ cur = 0
    /\ pc[r] = "metadata"
    /\ templateMetadata' = [templateMetadata EXCEPT ![r] =
           [set |-> TRUE, width |-> template.width, height |-> template.height]]
    /\ qrOverlay' = [qrOverlay EXCEPT ![r] =
           [set |-> TRUE, top |-> OverlayTop, left |-> OverlayLeft(template.width)]]
    /\ Call(r, "composite")
    /\ Goto(r, "compositing")
    /\ UNCHANGED <<env, now, cur, body, requestId, qrCodeBuffer, processedImage,
                   doc, error, res>>

\* sharp's composite rejects only an overlay larger than the base image; an
\* overlay that fits but is placed across an edge is cut at the edge.
CompositeRejects(base, overlay) ==
    overlay.width > base.width \/ overlay.height > base.height

Clipped(base, overlay, pos) ==
    \/ pos.left < 0
    \/ pos.top < 0
    \/ pos.left + overlay.width > base.width
    \/ pos.top + overlay.height > base.height

Composite(base, overlay, pos) ==
    [kind |-> "image", format |-> base.format, width |-> base.width,
     height |-> base.height, overlay |-> overlay.data, top |-> pos.top,
     left |-> pos.left, clipped |-> Clipped(base, overlay, pos)]

\* Lines 184-189: the composite settles; on success the synchronous rest of
\* the handler starts.
CompositeDone(r) ==
    /\ cur = 0
    /\ pc[r] = "compositing"
    /\ IF CompositeRejects(template, qrCodeBuffer[r])
       THEN /\ Throw(r, "Image to composite must have same dimensions or smaller")
            /\ UNCHANGED processedImage
       ELSE /\ processedImage' = [processedImage EXCEPT ![r] =
                   Composite(template, qrCodeBuffer[r], qrOverlay[r])]
            /\ Goto(r, "assembling")
            /\ cur' = r
            /\ UNCHANGED error
    /\ UNCHANGED <<env, now, body, requestId, stages, qrCodeBuffer,
                   templateMetadata, qrOverlay, doc, res>>

\* Lines 191-194: new PDFDocument({size, margin: 0}); the constructor
\* stamps the document's info.CreationDate with new Date().
NewDocument(width, height, date) ==
    [created |-> TRUE, size |-> <<width, height>>, creationDate |-> date,
     content |-> <<>>, ended |-> FALSE]

CreateDocument(r) ==
    /\ cur = r
    /\ pc[r] = "assembling"
    /\ Call(r, "PDFDocument")
    /\ doc' = [doc EXCEPT ![r] =
           NewDocument(templateMetadata[r].width, templateMetadata[r].height, now)]
    /\ Goto(r, "headers")
    /\ UNCHANGED <<env, now, cur, body, requestId, qrCodeBuffer, templateMetadata,
                   qrOverlay, processedImage, error, res>>

\* Lines 197-201: res.setHeader for Content-Type and Content-Disposition.
PdfHeaders(rs) ==
    [rs EXCEPT !.contentType = "application/pdf",
               !.contentDisposition = "attachment; filename=qr-instructions.pdf"]

SetHeaders(r) ==
    /\ cur = r
    /\ pc[r] = "headers"
    /\ res' = [res EXCEPT ![r] = PdfHeaders(@)]
    /\ Goto(r, "pipe")
    /\ UNCHANGED <<env, now, cur, body, requestId, stages, locals, error>>

\* Line 204: doc.pipe(res); the document's bytes flow in a later turn of the
\* event loop.
PipeDocument(r) ==
    /\ cur = r
    /\ pc[r] = "pipe"
    /\ res' = [res EXCEPT ![r].piped = TRUE]
    /\ Goto(r, "image")
    /\ UNCHANGED <<env, now, cur, body, requestId, stages, locals, error>>

\* Lines 208-211: doc.image embeds JPEG and PNG data and throws on any other.
Embeddable(image) == image.format \in {"png", "jpeg"}

ImageItem(image, width, height) ==
    [item |-> "image", image |-> image, x |-> 0, y |-> 0, width |-> width,
     height |-> height, text |-> "", fontSize |-> 0]

AddImage(r) ==
    /\ cur = r
    /\ pc[r] = "image"
    /\ IF Embeddable(processedImage[r])
       THEN /\ doc' = [doc EXCEPT ![r].content = Append(@,
                   ImageItem(processedImage[r], templateMetadata[r].width,
                             templateMetadata[r].height))]
            /\ Goto(r, "text")
            /\ UNCHANGED <<cur, error>>
       ELSE /\ Throw(r, "Unknown image format.")
            /\ UNCHANGED doc
    /\ UNCHANGED <<env, now, body, requestId, stages, qrCodeBuffer,
                   templateMetadata, qrOverlay, processedImage, res>>

\* Lines 214-225: the URL in Helvetica-Bold, centred, at 3% of the width and
\* 90% of the height.
FontSize(templateWidth) == MathRound(3 * templateWidth, 100)

TextY(templateHeight) == MathRound(9 * templateHeight, 10)

TextItem(url, width, height) ==
    [item |-> "text", image |-> NoBuffer, x |-> 0, y |-> TextY(height),
     width |-> width, height |-> 0, text |-> url.v, fontSize |-> FontSize(width)]

AddText(r) ==
    /\ cur = r
    /\ pc[r] = "text"
    /\ doc' = [doc EXCEPT ![r].content = Append(@,
           TextItem(UrlOf(r), templateMetadata[r].width,
                    templateMetadata[r].height))]
    /\ Goto(r, "end")
    /\ UNCHANGED <<env, now, cur, body, requestId, stages, qrCodeBuffer,
                   templateMetadata, qrOverlay, processedImage, error, res>>

\* As if doc.end() were never called.
EndDocumentForgotten(r) ==
    /\ cur = r
    /\ pc[r] = "end"
    /\ Goto(r, "streaming")
    /\ cur' = 0
    /\ UNCHANGED <<env, now, body, requestId, stages, locals, error, res>>

\* Lines 228-229: doc.end(); the handler returns.
EndDocument(r) ==
    /\ cur = r
    /\ pc[r] = "end"
    /\ doc' = [doc EXCEPT ![r].ended = TRUE]
    /\ Goto(r, "streaming")
    /\ cur' = 0
    /\ UNCHANGED <<env, now, body, requestId, stages, qrCodeBuffer,
                   templateMetadata, qrOverlay, processedImage, error, res>>

\* The bytes of a document: its info dictionary and its page.
PdfBytes(d) ==
    [kind |-> "pdf", size |-> d.size, creationDate |-> d.creationDate,
     content |-> d.content, finalized |-> d.ended]

\* The piped, ended document drains into the response, which ends with it.
Stream(r) ==
    /\ cur = 0
    /\ pc[r] = "streaming"
    /\ res[r].piped
    /\ doc[r].ended
    /\ res' = [res EXCEPT ![r].body = PdfBytes(doc[r]), ![r].ended = TRUE]
    /\ Goto(r, "done")
    /\ UNCHANGED <<env, now, cur, body, requestId, stages, locals, error>>

\* Lines 230-243: the catch block answers 500 with the error's message.
\* As if the catch block dropped the error's message.
CatchBodyNoDetails(e) ==
    [kind |-> "json", error |-> "Failed to process image", details |-> ""]

CatchBody(e) ==
    [kind |-> "json", error |-> "Failed to process image", details |-> e.message]

Catch(r) ==
    /\ cur = r
    /\ pc[r] = "catch"
    /\ res' = [res EXCEPT ![r] = SendJson(@, 500, CatchBody(error[r]))]
    /\ Goto(r, "failed")
    /\ cur' = 0
    /\ UNCHANGED <<env, now, body, requestId, stages, locals, error>>

\* A document piped before the catch block answered still drains: its bytes
\* reach a response that has ended and are refused.
LateWrite(r) ==
    /\ cur = 0
    /\ pc[r] = "failed"
    /\ res[r].piped
    /\ ~res[r].writeAfterEnd
    /\ res' = [res EXCEPT ![r].writeAfterEnd = TRUE]
    /\ UNCHANGED <<env, now, cur, pc, body, requestId, stages, locals, error>>

\* Every step of request r but its arrival.
Step(r) ==
    \/ Validate(r)
    \/ Authenticate(r)
    \/ EncodeDone(r)
    \/ LoadDone(r)
    \/ MetadataDone(r)
    \/ CompositeDone(r)
    \/ CreateDocument(r)
    \/ SetHeaders(r)
    \/ PipeDocument(r)
    \/ AddImage(r)
    \/ AddText(r)
    \/ EndDocument(r)
    \/ Stream(r)
    \/ Catch(r)
    \/ LateWrite(r)

Handle(r, bs) == Receive(r, bs) \/ Step(r)

Next == Tick \/ \E r \in Requests : Handle(r, Bodies)

Spec == Init /\ [][Next]_vars

\* Every awaited promise settles and every queued callback runs; one body of
\* each kind the handler tells apart.
FairBodies ==
    {[url |-> JsUndefined, authSecret |-> ConfiguredSecret],
     [url |-> GoodUrl, authSecret |-> JsString("S3CRET", 6)],
     [url |-> GoodUrl, authSecret |-> ConfiguredSecret],
     [url |-> LongUrl, authSecret |-> ConfiguredSecret]}

NextFair == Tick \/ \E r \in Requests : Handle(r, FairBodies)

FairSpec ==
    /\ Init
    /\ [][NextFair]_vars
    /\ \A r \in Requests : WF_vars(Step(r))

\* One authenticated request against templates of many sizes.
GeomWidths == ((QR_SIZE - GeomSlack)..(QR_SIZE + GeomSlack)) \cup {1240}
GeomHeights ==
    ((QR_SIZE - GeomSlack)..(QR_SIZE + GeomSlack))
        \cup ((QR_TOP + QR_SIZE - GeomSlack)..(QR_TOP + QR_SIZE + GeomSlack))
        \cup {1754}
GeomTemplates ==
    {Raster(w, h, "png") : w \in GeomWidths, h \in GeomHeights}
        \cup {NoTemplate, Raster(1240, 1754, "webp")}
GeomBodies == {[url |-> u, authSecret |-> ConfiguredSecret] : u \in {GoodUrl, LongUrl}}

InitGeom == InitWith(GeomTemplates)

NextGeom == Tick \/ Handle(1, GeomBodies)

SpecGeom == InitGeom /\ [][NextGeom]_vars

\* ------------------------------------------------------------------ claims
Terminal(r) == pc[r] \in {"done", "failed"}

\* The calls of the pipeline, in the order of the handler's text.
PipelineOrder == <<"generateQRCode", "toBuffer", "metadata", "composite", "PDFDocument">>

IsPrefix(s, t) == Len(s) <= Len(t) /\ \A i \in 1..Len(s) : s[i] = t[i]

\* C1 as stated, for requests that carry a url: every finished request whose
\* authSecret differs from the configured secret (the empty string included)
\* was answered 401 "Invalid authentication secret" and ran no pipeline stage.
C1_MismatchAlways401 ==
    \A r \in Requests :
        (Terminal(r) /\ Truthy(body[r].url) /\ body[r].authSecret # AUTH_SECRET) =>
            /\ res[r].statusCode = 401
            /\ res[r].body = [kind |-> "json", error |-> "Invalid authentication secret"]
            /\ stages[r] = <<>>

\* C1 amended: a request whose authSecret differs from the configured secret
\* never runs a pipeline stage; it is answered 401 "Invalid authentication
\* secret" when url and authSecret are both non-empty, and 400 "Missing
\* required parameters" when either is absent or empty.
C1_MismatchRejected ==
    \A r \in Requests :
        (pc[r] # "idle" /\ body[r].authSecret # AUTH_SECRET) =>
            /\ stages[r] = <<>>
            /\ pc[r] # "done"
            /\ Terminal(r) =>
                IF Truthy(body[r].url) /\ Truthy(body[r].authSecret)
                THEN /\ res[r].statusCode = 401
                     /\ res[r].body =
                            [kind |-> "json", error |-> "Invalid authentication secret"]
                ELSE /\ res[r].statusCode = 400
                     /\ res[r].body.error = "Missing required parameters"

C1_Witness ==
    \E r \in Requests :
        /\ pc[r] = "failed"
        /\ res[r].statusCode = 401
        /\ body[r].authSecret = JsString("S3CRET", 6)
        /\ AUTH_SECRET = ConfiguredSecret

Absent(x) == x.t = "undefined"

\* C2 as stated: a request without url or authSecret is answered 400, and the
\* details mark a field "missing" exactly when the body did not hold it.

C2_MissingIffAbsent ==
    \A r \in Requests :
        (Terminal(r) /\ (Absent(body[r].url) \/ Absent(body[r].authSecret))) =>
            /\ res[r].statusCode = 400
            /\ res[r].body.error = "Missing required parameters"
            /\ (res[r].body.details.url = "missing") <=> Absent(body[r].url)
            /\ (res[r].body.details.authSecret = "missing") <=> Absent(body[r].authSecret)

\* C2 amended: a request is answered 400 "Missing required parameters"
\* exactly when url or authSecret is absent or empty, and the details mark a
\* field "missing" exactly when it is absent or empty and "provided"
\* otherwise.
C2_MissingIffFalsy ==
    \A r \in Requests :
        Terminal(r) =>
            LET noUrl == body[r].url \in {JsUndefined, EmptyString}
                noSecret == body[r].authSecret \in {JsUndefined, EmptyString}
            IN  /\ (res[r].statusCode = 400) <=> (noUrl \/ noSecret)
                /\ (noUrl \/ noSecret) =>
                    /\ res[r].body.error = "Missing required parameters"
                    /\ res[r].body.details.url =
                           IF noUrl THEN "missing" ELSE "provided"
                    /\ res[r].body.details.authSecret =
                           IF noSecret THEN "missing" ELSE "provided"
                    /\ stages[r] = <<>>

C2_Witness ==
    \E r \in Requests :
        /\ pc[r] = "failed"
        /\ res[r].statusCode = 400
        /\ body[r].url = GoodUrl
        /\ res[r].body.details = [url |-> "provided", authSecret |-> "missing"]

\* The number of pipeline calls made when the failure with this message occurs.
CallsBefore(message) ==
    CASE message = "Failed to generate QR code" -> 1
      [] message = "Input file is missing" -> 2
      [] message = "Image to composite must have same dimensions or smaller" -> 4
      [] message = "Unknown image format." -> 5
      [] OTHER -> 0

\* C3: the pipeline calls are made in the handler's order with none skipped;
\* a failure stops the calls where it happened, and the request is answered
\* 500 {error: "Failed to process image", details: the failure's message}.
C3_ShortCircuit ==
    \A r \in Requests :
        /\ IsPrefix(stages[r], PipelineOrder)
        /\ (pc[r] \in {"catch", "failed"} /\ stages[r] # <<>>) =>
            /\ CallsBefore(error[r].message) > 0
            /\ Len(stages[r]) = CallsBefore(error[r].message)
        /\ (pc[r] = "failed" /\ stages[r] # <<>>) =>
            /\ res[r].statusCode = 500
            /\ res[r].body = [kind |-> "json", error |-> "Failed to process image",
                              details |-> error[r].message]

C3_Witness ==
    \E r \in Requests :
        /\ pc[r] = "failed"
        /\ res[r].statusCode = 500
        /\ stages[r] = <<"generateQRCode", "toBuffer">>
        /\ res[r].body.details = "Input file is missing"

\* The two outcomes a finished response may show.
CompletePdf(rs) ==
    /\ rs.statusCode = 200
    /\ rs.contentType = "application/pdf"
    /\ rs.contentDisposition = "attachment; filename=qr-instructions.pdf"
    /\ rs.body.kind = "pdf"
    /\ rs.body.finalized
    /\ Len(rs.body.content) = 2
    /\ ~rs.writeAfterEnd

JsonErrorOnly(rs) ==
    /\ rs.statusCode \in {400, 401, 500}
    /\ rs.body.kind = "json"
    /\ rs.contentType = "application/json"
    /\ rs.contentDisposition = ""
    /\ ~rs.piped
    /\ ~rs.writeAfterEnd

\* C4: a finished response is either the complete PDF under the PDF headers
\* or a JSON error under no PDF header, with no document bytes aimed at it.
C4_NoPartialSuccess ==
    \A r \in Requests : res[r].ended => (CompletePdf(res[r]) \/ JsonErrorOnly(res[r]))

\* What the client of request r receives.
Response(r) ==
    [statusCode |-> res[r].statusCode, contentType |-> res[r].contentType,
     contentDisposition |-> res[r].contentDisposition, body |-> res[r].body]

\* C5: two finished requests with identical bodies got identical responses
\* (status, headers and body).
C5_Deterministic ==
    \A r1, r2 \in Requests :
        (res[r1].ended /\ res[r2].ended /\ body[r1] = body[r2]) =>
            Response(r1) = Response(r2)

\* C6: a placement that crosses the template's right or bottom edge makes the
\* composite fail, so the request never gets past compositing.
C6_GeometryValidated ==
    \A r \in Requests :
        ( /\ qrOverlay[r].set
          /\ \/ qrOverlay[r].left + QR_SIZE > templateMetadata[r].width
             \/ qrOverlay[r].top + QR_SIZE > templateMetadata[r].height ) =>
            /\ pc[r] \in {"compositing", "catch", "failed"}
            /\ processedImage[r] = NoBuffer
            /\ res[r].body.kind # "pdf"

\* The overlay lies inside a template of the size read for request r.
OverlayInside(r) ==
    /\ 0 <= qrOverlay[r].left
    /\ qrOverlay[r].left + 384 <= templateMetadata[r].width
    /\ qrOverlay[r].top + 384 <= templateMetadata[r].height

\* C7 as stated: W > S and H > S keep the overlay inside the template.
C7_InsideWhenLargerThanQr ==
    \A r \in Requests :
        ( /\ qrOverlay[r].set
          /\ templateMetadata[r].width > 384
          /\ templateMetadata[r].height > 384 ) => OverlayInside(r)

\* C7 amended: W > S and H >= top + S = 865 keep the overlay inside the
\* template, and the composite does not fail.
C7_InsideWhenTallEnough ==
    \A r \in Requests :
        ( /\ qrOverlay[r].set
          /\ templateMetadata[r].width > 384
          /\ templateMetadata[r].height >= 481 + 384 ) =>
            /\ OverlayInside(r)
            /\ error[r].message # "Image to composite must have same dimensions or smaller"

C7_Witness ==
    \E r \in Requests :
        /\ qrOverlay[r].set
        /\ templateMetadata[r].width = 385
        /\ templateMetadata[r].height = 865
        /\ qrOverlay[r].left = 1
        /\ pc[r] = "done"

\* The state of request r in the specification's state machine. Streaming is
\* the state in which the PDF headers are set and the document is piped to
\* the response.
State(r) ==
    CASE pc[r] = "idle" -> "Idle"
      [] pc[r] = "validating" -> "Validating"
      [] pc[r] = "authenticating" -> "Authenticating"
      [] pc[r] = "encoding" -> "Encoding"
      [] pc[r] \in {"loading", "metadata"} -> "Loading"
      [] pc[r] = "compositing" -> "Compositing"
      [] pc[r] \in {"assembling", "headers", "pipe", "image", "text", "end"} ->
            IF res[r].contentType = "application/pdf" /\ res[r].piped
            THEN "Streaming" ELSE "Assembling"
      [] pc[r] = "streaming" -> "Streaming"
      [] pc[r] = "done" -> "Done"
      [] pc[r] \in {"catch", "failed"} -> "Failed"

Transitions ==
    {<<"Idle", "Validating">>, <<"Validating", "Authenticating">>,
     <<"Authenticating", "Encoding">>, <<"Encoding", "Loading">>,
     <<"Loading", "Compositing">>, <<"Compositing", "Assembling">>,
     <<"Assembling", "Streaming">>, <<"Streaming", "Done">>,
     <<"Validating", "Failed">>, <<"Authenticating", "Failed">>,
     <<"Encoding", "Failed">>, <<"Loading", "Failed">>,
     <<"Compositing", "Failed">>, <<"Assembling", "Failed">>}

\* C8: each request walks Idle, Validating, Authenticating, Encoding, Loading,
\* Compositing, Assembling, Streaming, Done in that order, and enters Failed
\* only from Validating, Authenticating or a pipeline stage.
C8_StateMachine ==
    [][\A r \in Requests :
        State(r)' # State(r) => <<State(r), State(r)'>> \in Transitions]_vars

NoRetry == \A r \in Requests : \A i, j \in 1..Len(stages[r]) :
    stages[r][i] = stages[r][j] => i = j

\* C9: a request that entered the handler reaches done or failed; no pipeline
\* call is made twice, and a finished request stays finished and makes no
\* further call.
C9_Terminates ==
    /\ \A r \in Requests : (pc[r] # "idle") ~> Terminal(r)
    /\ []NoRetry
    /\ [][\A r \in Requests :
            Terminal(r) => (pc'[r] = pc[r] /\ stages'[r] = stages[r])]_vars

C9_Witness ==
    \E r1, r2 \in Requests :
        /\ pc[r1] = "done"
        /\ pc[r2] = "failed"
        /\ Len(stages[r1]) = 5
        /\ stages[r2] = <<"generateQRCode">>

\* The response of the handler to body b when it runs alone, with the given
\* configuration, template and document date.
SoloFailure(message) ==
    [statusCode |-> 500, contentType |-> "application/json",
     contentDisposition |-> "",
     body |-> [kind |-> "json", error |-> "Failed to process image",
               details |-> message]]

SoloOutcome(b, secret, tpl, date) ==
    IF ~Truthy(b.url) \/ ~Truthy(b.authSecret)
    THEN [statusCode |-> 400, contentType |-> "application/json",
          contentDisposition |-> "",
          body |-> [kind |-> "json", error |-> "Missing required parameters",
                    details |-> [url |-> IF Truthy(b.url) THEN "provided" ELSE "missing",
                                 authSecret |-> IF Truthy(b.authSecret)
                                                THEN "provided" ELSE "missing"]]]
    ELSE IF b.authSecret # secret
    THEN [statusCode |-> 401, contentType |-> "application/json",
          contentDisposition |-> "",
          body |-> [kind |-> "json", error |-> "Invalid authentication secret"]]
    ELSE IF b.url.n > QR_CAPACITY_H
    THEN SoloFailure("Failed to generate QR code")
    ELSE IF ~tpl.exists
    THEN SoloFailure("Input file is missing")
    ELSE IF tpl.width < QR_SIZE \/ tpl.height < QR_SIZE
    THEN SoloFailure("Image to composite must have same dimensions or smaller")
    ELSE IF tpl.format \notin {"png", "jpeg"}
    THEN [SoloFailure("Unknown image format.") EXCEPT
              !.contentType = "application/pdf",
              !.contentDisposition = "attachment; filename=qr-instructions.pdf"]
    ELSE LET image == Composite(tpl, QRBuffer(b.url),
                          [top |-> OverlayTop, left |-> OverlayLeft(tpl.width)])
         IN  [statusCode |-> 200, contentType |-> "application/pdf",
              contentDisposition |-> "attachment; filename=qr-instructions.pdf",
              body |-> [kind |-> "pdf", size |-> <<tpl.width, tpl.height>>,
                        creationDate |-> date,
                        content |-> <<ImageItem(image, tpl.width, tpl.height),
                                      TextItem(b.url, tpl.width, tpl.height)>>,
                        finalized |-> TRUE]]

\* C10: the response of a finished request is the one the handler gives that
\* request when it runs alone, whatever the other requests did meanwhile.
C10_Independent ==
    \A r \in Requests :
        res[r].ended =>
            Response(r) = SoloOutcome(body[r], AUTH_SECRET, template, doc[r].creationDate)

\* The second request finished with its PDF while the first, with another
\* url, was still in its pipeline.
C10_Witness ==
    /\ pc[2] = "done"
    /\ pc[1] \in {"encoding", "loading", "metadata", "compositing"}
    /\ body[1].url # body[2].url
    /\ Truthy(body[1].url)
====
